---- MODULE Spec2Model ----
(***************************************************************************)
(* Model of smoke-tester/src/dut_definition.rs: the collection of DUT      *)
(* definitions from a directory (DutDefinition::collect) and the           *)
(* resolution of one raw definition (DutDefinition::from_raw_definition).  *)
(*                                                                         *)
(* A file name is the sequence of its dot-separated segments, so           *)
(* "board1.toml" is <<"board1", "toml">>, ".toml" is <<"", "toml">>,       *)
(* "." is <<"", "">> and ".." is <<"", "", "">>.  A path is a record       *)
(* [abs, comps]: whether it has a root, and its components.                *)
(***************************************************************************)
EXTENDS Integers, Sequences, FiniteSets, TLC

\* The largest number of regular files placed in the collected directory.
MaxEntries == 2

Dot == <<"", "">>
DotDot == <<"", "", "">>

None == [some |-> FALSE]
Some(v) == [some |-> TRUE, value |-> v]

AbsPath(comps) == [abs |-> TRUE, comps |-> comps]
RelPath(comps) == [abs |-> FALSE, comps |-> comps]

Range(s) == {s[i] : i \in 1..Len(s)}

----------------------------------------------------------------------------
(* The filesystem the program runs on, apart from the definition files:    *)
(*   /work/duts/bin/test.elf      regular file                             *)
(*   /work/duts/bin/latest.elf -> /work/fw/blinky.elf   (symbolic link)    *)
(*   /work/fw/blinky.elf          regular file                             *)
(*   /opt/fw.elf                  regular file                             *)
(* keyed by the canonical absolute path of each node.                      *)
Work == <<"work">>
Duts == <<"duts">>
Bin == <<"bin">>
Fw == <<"fw">>
Opt == <<"opt">>
TestElf == <<"test", "elf">>
LatestElf == <<"latest", "elf">>
BlinkyElf == <<"blinky", "elf">>
FwElf == <<"fw", "elf">>
MissingElf == <<"missing", "elf">>
Nope == <<"nope">>

DirNode == [kind |-> "dir"]
FileNode == [kind |-> "file"]
LinkNode(target) == [kind |-> "link", target |-> target]

FsNodes ==
    ( <<>> :> DirNode
   @@ <<Work>> :> DirNode
   @@ <<Work, Duts>> :> DirNode
   @@ <<Work, Duts, Bin>> :> DirNode
   @@ <<Work, Duts, Bin, TestElf>> :> FileNode
   @@ <<Work, Duts, Bin, LatestElf>> :> LinkNode(<<Work, Fw, BlinkyElf>>)
   @@ <<Work, Fw>> :> DirNode
   @@ <<Work, Fw, BlinkyElf>> :> FileNode
   @@ <<Opt>> :> DirNode
   @@ <<Opt, FwElf>> :> FileNode )

ButLast(s) == SubSeq(s, 1, Len(s) - 1)

\* std::fs::canonicalize: walk the components from the root (or from the
\* working directory for a relative path), dropping ".", stepping up on
\* "..", following symbolic links, failing when a component does not exist
\* or a non-directory is descended into.
RECURSIVE Walk(_, _)
Walk(cur, rest) ==
    IF rest = <<>> THEN [ok |-> TRUE, value |-> cur]
    ELSE IF FsNodes[cur].kind # "dir" THEN [ok |-> FALSE]
    ELSE LET c == Head(rest)
             next == Append(cur, c)
         IN IF c = Dot THEN Walk(cur, Tail(rest))
            ELSE IF c = DotDot
              THEN Walk(IF cur = <<>> THEN cur ELSE ButLast(cur), Tail(rest))
            ELSE IF next \notin DOMAIN FsNodes THEN [ok |-> FALSE]
            ELSE IF FsNodes[next].kind = "link"
              THEN Walk(FsNodes[next].target, Tail(rest))
            ELSE Walk(next, Tail(rest))

Canonicalize(path, wd) ==
    IF ~path.abs /\ path.comps = <<>> THEN [ok |-> FALSE]
    ELSE LET r == Walk(IF path.abs THEN <<>> ELSE wd, path.comps)
         IN IF r.ok THEN [ok |-> TRUE, value |-> AbsPath(r.value)] ELSE r

\* Path::is_dir: the path exists and, links followed, names a directory.
IsDir(path, wd) ==
    LET r == Canonicalize(path, wd)
    IN r.ok /\ FsNodes[r.value.comps].kind = "dir"

\* Path::exists
Exists(path, wd) == Canonicalize(path, wd).ok

\* Path::is_absolute
IsAbsolute(path) == path.abs

\* Path::join: an absolute argument replaces the base.
Join(base, path) ==
    IF path.abs THEN path
    ELSE [abs |-> base.abs, comps |-> base.comps \o path.comps]

\* Path::parent: the path without its final component, None at a root or
\* at the empty path.
Parent(path) ==
    IF path.comps = <<>> THEN None
    ELSE Some([abs |-> path.abs, comps |-> ButLast(path.comps)])

\* Path::extension: the part of the file name after its last dot; none
\* when there is no file name, no dot, or the only dot starts the name.
Extension(path) ==
    IF path.comps = <<>> THEN None
    ELSE LET name == path.comps[Len(path.comps)]
         IN IF name = DotDot \/ Len(name) = 1 THEN None
            ELSE IF Len(name) = 2 /\ name[1] = "" THEN None
            ELSE Some(name[Len(name)])

----------------------------------------------------------------------------
(* The collaborators owned by the probe-rs library: the chip database      *)
(* (search by query, fetch by exact name) and the selector grammar.        *)
(* A chip name or query is the sequence of its parts, so "nRF52840_xxAA"   *)
(* is <<"nRF52", "840", "_xxAA">>; a selector string is the sequence of    *)
(* its colon-separated fields, a hexadecimal field the sequence of its     *)
(* digits.                                                                 *)

ChipNames ==
    << <<"nRF52", "832", "_xxAA">>,
       <<"nRF52", "840", "_xxAA">>,
       <<"STM32", "F103", "C8">> >>

Targets ==
    ( <<"nRF52", "832", "_xxAA">> :>
          [name |-> <<"nRF52", "832", "_xxAA">>, core |-> "M4", flash_kb |-> 512]
   @@ <<"nRF52", "840", "_xxAA">> :>
          [name |-> <<"nRF52", "840", "_xxAA">>, core |-> "M4", flash_kb |-> 1024]
   @@ <<"STM32", "F103", "C8">> :>
          [name |-> <<"STM32", "F103", "C8">>, core |-> "M3", flash_kb |-> 64] )

LowerTable ==
    ( "nRF52" :> "nrf52" @@ "NRF52" :> "nrf52" @@ "_xxAA" :> "_xxaa"
   @@ "STM32" :> "stm32" @@ "F103" :> "f103" @@ "C8" :> "c8" )

ToLower(name) ==
    [i \in 1..Len(name) |->
        IF name[i] \in DOMAIN LowerTable THEN LowerTable[name[i]] ELSE name[i]]

\* name contains part as a contiguous run
Contains(name, part) ==
    \E i \in 0..(Len(name) - Len(part)) :
        SubSeq(name, i + 1, i + Len(part)) = part

\* search_chips: the names of the chips matching the query, compared
\* without regard to case, in the order of the registry.
SearchChips(query) ==
    SelectSeq(ChipNames, LAMBDA n : Contains(ToLower(n), ToLower(query)))

\* get_target_by_name: the descriptor stored under exactly this name.
GetTargetByName(name) ==
    IF name \in DOMAIN Targets
    THEN [ok |-> TRUE, value |-> Targets[name]]
    ELSE [ok |-> FALSE]

HexDigit ==
    ( "0" :> 0 @@ "1" :> 1 @@ "2" :> 2 @@ "3" :> 3 @@ "4" :> 4 @@ "5" :> 5
   @@ "6" :> 6 @@ "7" :> 7 @@ "8" :> 8 @@ "9" :> 9 @@ "a" :> 10 @@ "b" :> 11
   @@ "c" :> 12 @@ "d" :> 13 @@ "e" :> 14 @@ "f" :> 15 )

IsHex(field) ==
    /\ Len(field) \in 1..4
    /\ \A i \in 1..Len(field) : field[i] \in DOMAIN HexDigit

RECURSIVE HexValue(_)
HexValue(field) ==
    IF field = <<>> THEN 0
    ELSE 16 * HexValue(ButLast(field)) + HexDigit[field[Len(field)]]

\* DebugProbeSelector::try_from(String): VID:PID or VID:PID:Serial, the two
\* identifiers 16-bit hexadecimal numbers.
ParseProbeSelector(s) ==
    IF Len(s) \notin {2, 3} \/ ~IsHex(s[1]) \/ ~IsHex(s[2])
    THEN [ok |-> FALSE]
    ELSE [ok |-> TRUE,
          value |-> [vendor_id |-> HexValue(s[1]),
                     product_id |-> HexValue(s[2]),
                     serial_number |-> IF Len(s) = 3 THEN Some(s[3]) ELSE None]]

----------------------------------------------------------------------------
(* Errors (anyhow::Error): a kind, the message as the sequence of its      *)
(* literal and interpolated parts, and the contexts wrapped around it,     *)
(* outermost first.                                                        *)

\* a literal part of a message, and an interpolated value
Lit(text) == [lit |-> text]
Arg(v) == [arg |-> v]

Error(kind, msg) == [kind |-> kind, msg |-> msg, context |-> <<>>]
NoError == [kind |-> "none", msg |-> <<>>, context |-> <<>>]

\* Context::with_context
WithContext(err, ctx) == [err EXCEPT !.context = <<ctx>> \o @]

\* The result of a resolution: the Result itself (ok, value, err), the
\* lines it wrote to standard error, and the paths it canonicalized.
Resolved(definition, canon) ==
    [ok |-> TRUE, value |-> definition, err |-> NoError,
     stderr |-> <<>>, canon |-> canon]
Rejected(err, lines, canon) ==
    [ok |-> FALSE, value |-> None, err |-> err,
     stderr |-> lines, canon |-> canon]

\* RawDutDefinition::from_file: read the file, deserialize the TOML table
\* into the three fields; chip and probe_selector are required, other keys
\* are ignored.
RawFromFile(content) ==
    IF content.kind = "unreadable"
    THEN [ok |-> FALSE, err |-> Error("Io", <<Lit("read")>>)]
    ELSE IF ~({"chip", "probe_selector"} \subseteq DOMAIN content.table)
    THEN [ok |-> FALSE, err |-> Error("Toml", <<Lit("missing field")>>)]
    ELSE [ok |-> TRUE,
          value |-> [chip |-> content.table["chip"],
                     probe_selector |-> content.table["probe_selector"],
                     flash_test_binary |->
                        IF "flash_test_binary" \in DOMAIN content.table
                        THEN Some(content.table["flash_test_binary"])
                        ELSE None]]

\* The lines written to standard error for an ambiguous chip name.
AmbiguityLines(query, targets) ==
    <<  <<Lit("For tests, chip definition must be exact. Chip name"),
          Arg(query), Lit("matches multiple chips:")>>  >>
    \o [i \in 1..Len(targets) |-> <<Lit("\t"), Arg(targets[i])>>]

\* Variant: an ambiguous name silently resolves to the first candidate.
DisambiguateTakeFirst(query, targets) ==
    IF targets = <<>>
    THEN [ok |-> FALSE,
          err |-> Error("ChipNotFound",
                        <<Lit("Unable to find any chip matching"), Arg(query)>>),
          stderr |-> <<>>]
    ELSE [ok |-> TRUE, err |-> NoError, stderr |-> <<>>]

\* Variant: one test, "not exactly one match", reported as an ambiguity.
DisambiguateOneTest(query, targets) ==
    IF Len(targets) # 1
    THEN [ok |-> FALSE,
          err |-> Error("AmbiguousChip",
                        <<Lit("Chip definition does not match exactly.")>>),
          stderr |-> AmbiguityLines(query, targets)]
    ELSE [ok |-> TRUE, err |-> NoError, stderr |-> <<>>]

\* The ensure! on an empty search result and the bail! on more than one.
Disambiguate(query, targets) ==
    IF targets = <<>>
    THEN [ok |-> FALSE,
          err |-> Error("ChipNotFound",
                        <<Lit("Unable to find any chip matching"), Arg(query)>>),
          stderr |-> <<>>]
    ELSE IF Len(targets) > 1
    THEN [ok |-> FALSE,
          err |-> Error("AmbiguousChip",
                        <<Lit("Chip definition does not match exactly.")>>),
          stderr |-> AmbiguityLines(query, targets)]
    ELSE [ok |-> TRUE, err |-> NoError, stderr |-> <<>>]

\* Variant: the descriptor is fetched under the query, not the match.
SelectTargetByQuery(query, targets) == GetTargetByName(query)

\* let target = get_target_by_name(&targets[0])?
SelectTarget(query, targets) == GetTargetByName(targets[1])

\* Variant: every path is canonicalized, an absolute one too.
ResolveFlashTestBinaryAlways(flash_test_binary, source_file, wd) ==
    IF ~flash_test_binary.some
    THEN [ok |-> TRUE, value |-> None, canon |-> {}]
    ELSE LET parent == Parent(source_file)
             source_file_directory ==
                 IF parent.some THEN parent.value ELSE RelPath(<<Dot>>)
             flash_binary_location ==
                 Join(source_file_directory, flash_test_binary.value)
             r == Canonicalize(flash_binary_location, wd)
         IN IF r.ok
            THEN [ok |-> TRUE, value |-> Some(r.value),
                  canon |-> {flash_binary_location}]
            ELSE [ok |-> FALSE, value |-> None,
                  canon |-> {flash_binary_location}]

\* Variant: a relative path is canonicalized as it stands, that is, against
\* the working directory of the process.
ResolveFlashTestBinaryFromCwd(flash_test_binary, source_file, wd) ==
    IF ~flash_test_binary.some
    THEN [ok |-> TRUE, value |-> None, canon |-> {}]
    ELSE LET path == flash_test_binary.value
             r == Canonicalize(path, wd)
         IN IF IsAbsolute(path)
            THEN [ok |-> TRUE, value |-> Some(path), canon |-> {}]
            ELSE IF r.ok
            THEN [ok |-> TRUE, value |-> Some(r.value), canon |-> {path}]
            ELSE [ok |-> FALSE, value |-> None, canon |-> {path}]

\* The match on flash_test_binary: an absolute path is kept as given; a
\* relative one is joined to the directory of the source file and
\* canonicalized.
ResolveFlashTestBinary(flash_test_binary, source_file, wd) ==
    IF ~flash_test_binary.some
    THEN [ok |-> TRUE, value |-> None, canon |-> {}]
    ELSE LET path == flash_test_binary.value
         IN IF IsAbsolute(path)
            THEN [ok |-> TRUE, value |-> Some(path), canon |-> {}]
            ELSE LET parent == Parent(source_file)
                     source_file_directory ==
                         IF parent.some THEN parent.value ELSE RelPath(<<Dot>>)
                     flash_binary_location == Join(source_file_directory, path)
                     r == Canonicalize(flash_binary_location, wd)
                 IN IF r.ok
                    THEN [ok |-> TRUE, value |-> Some(r.value),
                          canon |-> {flash_binary_location}]
                    ELSE [ok |-> FALSE, value |-> None,
                          canon |-> {flash_binary_location}]

File(path) == [tag |-> "File", path |-> path]
Cli == [tag |-> "Cli"]

\* Variant: the source records the directory, not the file.
MakeDefinitionSourceDir(target, probe_selector, flash_test_binary, source_file) ==
    [chip |-> target,
     probe_selector |-> probe_selector,
     flash_test_binary |-> flash_test_binary,
     source |-> File(Parent(source_file).value)]

\* Ok(Self { chip, probe_selector, flash_test_binary, source })
MakeDefinition(target, probe_selector, flash_test_binary, source_file) ==
    [chip |-> target,
     probe_selector |-> probe_selector,
     flash_test_binary |-> flash_test_binary,
     source |-> File(source_file)]

\* Variant: the chip is looked up before the selector is parsed.
FromRawDefinitionChipFirst(raw, source_file, wd) ==
    LET targets == SearchChips(raw.chip)
        dis == Disambiguate(raw.chip, targets)
    IN IF ~dis.ok THEN Rejected(dis.err, dis.stderr, {})
       ELSE
    LET sel == ParseProbeSelector(raw.probe_selector)
    IN IF ~sel.ok
       THEN Rejected(Error("InvalidProbeSelector", <<Lit("parse")>>), <<>>, {})
       ELSE
    LET target == SelectTarget(raw.chip, targets)
        ftb == ResolveFlashTestBinary(raw.flash_test_binary, source_file, wd)
    IN IF ~target.ok
       THEN Rejected(Error("ChipNotFound", <<Lit("registry")>>), <<>>, {})
       ELSE IF ~ftb.ok
       THEN Rejected(Error("Io", <<Lit("canonicalize")>>), <<>>, ftb.canon)
       ELSE Resolved(MakeDefinition(target.value, sel.value, ftb.value,
                                    source_file),
                     ftb.canon)

\* DutDefinition::from_raw_definition, in the order of its statements.
FromRawDefinition(raw, source_file, wd) ==
    LET sel == ParseProbeSelector(raw.probe_selector)
    IN IF ~sel.ok
       THEN Rejected(Error("InvalidProbeSelector", <<Lit("parse")>>), <<>>, {})
       ELSE
    LET targets == SearchChips(raw.chip)
        dis == Disambiguate(raw.chip, targets)
    IN IF ~dis.ok THEN Rejected(dis.err, dis.stderr, {})
       ELSE
    LET target == SelectTarget(raw.chip, targets)
    IN IF ~target.ok
       THEN Rejected(Error("ChipNotFound", <<Lit("registry")>>), <<>>, {})
       ELSE
    LET ftb == ResolveFlashTestBinary(raw.flash_test_binary, source_file, wd)
    IN IF ~ftb.ok
       THEN Rejected(Error("Io", <<Lit("canonicalize")>>), <<>>, ftb.canon)
       ELSE Resolved(MakeDefinition(target.value, sel.value, ftb.value,
                                    source_file),
                     ftb.canon)

\* DutDefinition::from_file
DutFromFile(content, file, wd) ==
    LET raw == RawFromFile(content)
    IN IF ~raw.ok THEN Rejected(raw.err, <<>>, {})
       ELSE FromRawDefinition(raw.value, file, wd)

----------------------------------------------------------------------------
(* The inputs: the working directory of the process, the directory given   *)
(* to collect, the regular files found in it, and what each definition     *)
(* file holds when it is read.                                             *)

WorkingDirs == { <<Work>>, <<Work, Duts>> }

Directories ==
    { AbsPath(<<Work, Duts>>), RelPath(<<Duts>>), AbsPath(<<Work, Fw>>),
      AbsPath(<<Opt, FwElf>>), RelPath(<<Nope>>) }

EntryNames ==
    { <<"board1", "toml">>, <<"board2", "toml">>, <<"board3", "toml">>,
      <<"readme", "txt">>, <<"", "toml">>, <<"notes", "TOML">>,
      <<"old", "toml", "bak">> }

ChipQueries ==
    { <<"nrf52">>, <<"NRF52", "840">>, <<"STM32", "F103", "C8">>, <<"esp32">> }

SelectorInputs ==
    { << <<"1", "3", "6", "6">>, <<"0", "1", "0", "1">>, <<"SN1">> >>,
      << <<"1", "3", "6", "6">> >>,
      << <<"u", "s", "b">>, <<"0", "1", "0", "1">> >> }

BinaryInputs ==
    { AbsPath(<<Opt, FwElf>>), AbsPath(<<Opt, MissingElf>>),
      RelPath(<<Bin, LatestElf>>), RelPath(<<DotDot, Duts, Bin, TestElf>>),
      RelPath(<<MissingElf>>) }

Table(chip, sel) == ("chip" :> chip @@ "probe_selector" :> sel)

Contents ==
    { [kind |-> "unreadable"] }
    \cup { [kind |-> "toml", table |-> ("probe_selector" :> s)] :
              s \in SelectorInputs }
    \cup { [kind |-> "toml", table |-> Table(c, s)] :
              c \in ChipQueries, s \in SelectorInputs }
    \cup { [kind |-> "toml",
            table |-> Table(c, s) @@ ("flash_test_binary" :> b)] :
              c \in ChipQueries, s \in SelectorInputs, b \in BinaryInputs }
    \cup { [kind |-> "toml",
            table |-> Table(c, s) @@ ("comment" :> <<"bench 3">>)] :
              c \in {<<"STM32", "F103", "C8">>},
              s \in {x \in SelectorInputs : Len(x) = 3} }

----------------------------------------------------------------------------
VARIABLES
    cwd,          \* the working directory of the process
    directory,    \* the argument of collect
    entries,      \* the names of the regular files in that directory
    pc,           \* "start", "loop" or "done"
    remaining,    \* the entries read_dir has yet to yield
    definitions,  \* the local Vec of collect
    result,       \* what collect returned
    stderr,       \* the lines written to standard error
    visited,      \* history: the entries read_dir has yielded
    parsed,       \* history: the files handed to from_file
    failed,       \* history: the files whose definition was rejected
    last          \* history: the file processed last, its content and outcome

vars == <<cwd, directory, entries, pc, remaining, definitions, result,
          stderr, visited, parsed, failed, last>>

NoResult == [done |-> FALSE]
Ok(v) == [done |-> TRUE, ok |-> TRUE, value |-> v, err |-> NoError]
Err(e) == [done |-> TRUE, ok |-> FALSE, err |-> e]

NoLast == [none |-> TRUE]

\* The names in a directory: those of the fixed tree and the regular files
\* placed there.
Children(dir) ==
    { c \in {Bin, Fw, Duts, Work, Opt, TestElf, LatestElf, BlinkyElf, FwElf} :
        Append(dir, c) \in DOMAIN FsNodes } \cup entries

\* Path::read_dir and DirEntry::path: the entries of the directory, each
\* as the directory joined with the entry's name.
ReadDir(dir, wd) ==
    IF ~IsDir(dir, wd) THEN [ok |-> FALSE, err |-> Error("Io", <<Lit("read_dir")>>)]
    ELSE [ok |-> TRUE,
          value |-> { Join(dir, RelPath(<<c>>)) :
                        c \in Children(Canonicalize(dir, wd).value.comps) }]

\* Variant: the path is only required to exist.
EnsureExists(dir, wd) == Exists(dir, wd)

\* The condition of the ensure! that opens collect.
EnsureIsDir(dir, wd) == IsDir(dir, wd)

\* Variant: the file name is only required to end in ".toml".
IsDefinitionFileBySuffix(file_path) ==
    /\ file_path.comps # <<>>
    /\ LET name == file_path.comps[Len(file_path.comps)]
       IN Len(name) >= 2 /\ name[Len(name)] = "toml"

\* The negation of the test that skips an entry.
IsDefinitionFile(file_path) == Extension(file_path) = Some("toml")

\* Variant: a rejected file is logged and the loop goes on.
CollectStepSkipBad(defs, file_path, res) ==
    [pc |-> "loop",
     definitions |-> IF res.ok THEN Append(defs, res.value) ELSE defs,
     result |-> NoResult]

\* One turn of the loop for a definition file: push the definition, or
\* return the error with the file named in its context.
CollectStep(defs, file_path, res) ==
    IF res.ok
    THEN [pc |-> "loop", definitions |-> Append(defs, res.value),
          result |-> NoResult]
    ELSE [pc |-> "done", definitions |-> defs,
          result |-> Err(WithContext(res.err,
                         <<Lit("Failed to parse definition"), Arg(file_path)>>))]

Init ==
    /\ cwd \in WorkingDirs
    /\ directory \in Directories
    /\ entries \in {e \in SUBSET EntryNames : Cardinality(e) <= MaxEntries}
    /\ pc = "start"
    /\ remaining = {}
    /\ definitions = <<>>
    /\ result = NoResult
    /\ stderr = <<>>
    /\ visited = {}
    /\ parsed = {}
    /\ failed = {}
    /\ last = NoLast

\* collect on a path that is not a directory
CollectNotADirectory ==
    /\ pc = "start"
    /\ ~EnsureIsDir(directory, cwd)
    /\ pc' = "done"
    /\ result' = Err(Error("NotADirectory",
                   <<Lit("Unable to collect target definitions from path"),
                     Arg(directory), Lit("Path is not a directory.")>>))
    /\ UNCHANGED <<cwd, directory, entries, remaining, definitions, stderr,
                   visited, parsed, failed, last>>

\* collect on a directory: the ensure! passes, read_dir is opened
CollectReadDir ==
    /\ pc = "start"
    /\ EnsureIsDir(directory, cwd)
    /\ LET rd == ReadDir(directory, cwd)
       IN IF rd.ok
          THEN /\ pc' = "loop"
               /\ remaining' = rd.value
               /\ result' = result
          ELSE /\ pc' = "done"
               /\ remaining' = remaining
               /\ result' = Err(rd.err)
    /\ UNCHANGED <<cwd, directory, entries, definitions, stderr, visited,
                   parsed, failed, last>>

\* the loop yields an entry without the .toml extension
SkipEntry ==
    /\ pc = "loop"
    /\ \E file_path \in remaining :
        /\ ~IsDefinitionFile(file_path)
        /\ remaining' = remaining \ {file_path}
        /\ visited' = visited \cup {file_path}
    /\ UNCHANGED <<cwd, directory, entries, pc, definitions, result, stderr,
                   parsed, failed, last>>

\* the loop yields a definition file, which is read and resolved
ParseEntry ==
    /\ pc = "loop"
    /\ \E file_path \in remaining, content \in Contents :
        /\ IsDefinitionFile(file_path)
        /\ LET res == DutFromFile(content, file_path, cwd)
               step == CollectStep(definitions, file_path, res)
           IN /\ pc' = step.pc
              /\ definitions' = step.definitions
              /\ result' = step.result
              /\ stderr' = stderr \o res.stderr
              /\ failed' = IF res.ok THEN failed ELSE failed \cup {file_path}
              /\ last' = [file |-> file_path, content |-> content, res |-> res]
        /\ remaining' = remaining \ {file_path}
        /\ visited' = visited \cup {file_path}
        /\ parsed' = parsed \cup {file_path}
    /\ UNCHANGED <<cwd, directory, entries>>

\* the loop is over: Ok(definitions)
CollectReturn ==
    /\ pc = "loop"
    /\ remaining = {}
    /\ pc' = "done"
    /\ result' = Ok(definitions)
    /\ UNCHANGED <<cwd, directory, entries, remaining, definitions, stderr,
                   visited, parsed, failed, last>>

Next ==
    \/ CollectNotADirectory
    \/ CollectReadDir
    \/ SkipEntry
    \/ ParseEntry
    \/ CollectReturn

Spec == Init /\ [][Next]_vars

----------------------------------------------------------------------------
(* What the properties speak about: the definition read last, the chips    *)
(* its query matches, and the directory its file lies in.                  *)

\* the file processed last held a well-formed raw definition
HasRaw ==
    /\ last # NoLast
    /\ last.content.kind = "toml"
    /\ {"chip", "probe_selector"} \subseteq DOMAIN last.content.table

Query == last.content.table["chip"]
Matching == { n \in Range(ChipNames) : Contains(ToLower(n), ToLower(Query)) }
ValidSelector == ParseProbeSelector(last.content.table["probe_selector"]).ok
HasBinary == "flash_test_binary" \in DOMAIN last.content.table
Binary == last.content.table["flash_test_binary"]

\* the absolute location of the collected directory, and of p inside it
Located == IF directory.abs THEN directory.comps ELSE cwd \o directory.comps
InDirectory(p) == IF p.abs THEN p ELSE AbsPath(Located \o p.comps)

DefinitionFiles ==
    { Join(directory, RelPath(<<n>>)) : n \in {e \in entries :
        Len(e) >= 2 /\ e[Len(e)] = "toml" /\ ~(Len(e) = 2 /\ e[1] = "")} }

Sources(defs) == { defs[i].source : i \in 1..Len(defs) }

----------------------------------------------------------------------------
C3_AllOrNothing ==
    (failed # {}) =>
        /\ pc = "done"
        /\ result.done /\ ~result.ok
        /\ "value" \notin DOMAIN result
        /\ failed = {last.file}
        /\ result.err.context =
              << <<Lit("Failed to parse definition"), Arg(last.file)>> >>
        /\ result.err.kind = last.res.err.kind

C3_Witness ==
    /\ failed # {}
    /\ Len(definitions) >= 1
    /\ pc = "done"

\* C4: with a valid selector, a flash_test_binary that is absent or exists
\* (from the file's directory), and a query matching exactly one chip,
\* resolution succeeds and chip is the descriptor stored under the name of
\* that chip.
C4_SingleMatchResolves ==
    (HasRaw /\ ValidSelector /\ Cardinality(Matching) = 1
        /\ (HasBinary => Exists(InDirectory(Binary), cwd))) =>
        /\ last.res.ok
        /\ \A n \in Matching : last.res.value.chip = Targets[n]

C4_Witness ==
    /\ HasRaw /\ ValidSelector /\ HasBinary
    /\ Query = <<"NRF52", "840">>
    /\ last.res.ok
    /\ last.res.value.chip.name = <<"nRF52", "840", "_xxAA">>

\* C5: with a valid selector and a query matching no chip, resolution fails
\* with the chip-not-found error, which carries the query, and the file
\* yields no definition.
C5_NoMatchFails ==
    (HasRaw /\ ValidSelector /\ Matching = {}) =>
        /\ ~last.res.ok
        /\ last.res.err.kind = "ChipNotFound"
        /\ Arg(Query) \in Range(last.res.err.msg)
        /\ last.res.value = None
        /\ File(last.file) \notin Sources(definitions)

C5_Witness ==
    /\ HasRaw /\ ValidSelector /\ Matching = {}
    /\ pc = "done"

\* C6: a relative flash_test_binary p in a file of directory D (valid
\* selector, exactly one chip) resolves to the canonical form of D/p,
\* whatever the working directory; if D/p does not exist, resolution fails
\* with an I/O error.
C6_RelativeToFile ==
    (HasRaw /\ ValidSelector /\ Cardinality(Matching) = 1 /\ HasBinary
        /\ ~Binary.abs) =>
        LET c == Canonicalize(InDirectory(Binary), <<>>)
        IN IF c.ok
           THEN /\ last.res.ok
                /\ last.res.value.flash_test_binary = Some(c.value)
           ELSE /\ ~last.res.ok
                /\ last.res.err.kind = "Io"

C6_Witness ==
    /\ HasRaw /\ ValidSelector /\ HasBinary /\ ~Binary.abs
    /\ last.res.ok
    /\ cwd # Located
    /\ last.res.value.flash_test_binary.value # InDirectory(Binary)

\* C7: an entry whose extension is not exactly "toml" is never read, never
\* rejected, never the source of a definition and never named by the error;
\* a directory holding only such entries yields Ok with no definitions.
C7_OthersSkipped ==
    /\ \A f \in visited :
          Extension(f) # Some("toml") =>
              /\ f \notin parsed
              /\ f \notin failed
              /\ File(f) \notin Sources(definitions)
              /\ (result.done /\ ~result.ok) =>
                    \A i \in 1..Len(result.err.context) :
                        Arg(f) \notin Range(result.err.context[i])
    /\ (pc = "done" /\ IsDir(directory, cwd) /\ DefinitionFiles = {}) =>
          result = Ok(<<>>)

C7_Witness ==
    /\ pc = "done"
    /\ entries = { <<"", "toml">>, <<"notes", "TOML">> }
    /\ Cardinality(visited) >= 3
    /\ result = Ok(<<>>)

\* C8: when every definition file of the directory is valid, collect
\* returns as many definitions as there are definition files, one for each
\* file, its source being File of that file's path.
C8_OnePerFile ==
    (pc = "done" /\ IsDir(directory, cwd) /\ failed = {}) =>
        /\ result.ok
        /\ Len(result.value) = Cardinality(DefinitionFiles)
        /\ Sources(result.value) = { File(f) : f \in DefinitionFiles }

C8_Witness ==
    /\ pc = "done" /\ result.ok
    /\ Len(result.value) = 2
    /\ Cardinality(visited) >= 3

\* C9: on a path that is not a directory, collect returns the
\* not-a-directory error in its first step: no entry has been enumerated and
\* no file read.
C9_NotADirectory ==
    (~IsDir(directory, cwd)) =>
        /\ pc \in {"start", "done"}
        /\ pc = "done" =>
              /\ ~result.ok
              /\ result.err.kind = "NotADirectory"
              /\ Arg(directory) \in Range(result.err.msg)
        /\ visited = {} /\ parsed = {} /\ last = NoLast
        /\ definitions = <<>>

C9_Witness ==
    /\ directory = AbsPath(<<Opt, FwElf>>)
    /\ Exists(directory, cwd)
    /\ pc = "done"

\* C10: the selector is checked first, the chip second, the path last, and
\* the first failure is the one returned: an invalid selector gives the
\* invalid-selector error whatever the chip and the path are, and a query
\* matching no chip or several gives the chip error with no path
\* canonicalized.
C10_FirstFailure ==
    HasRaw =>
        /\ ~ValidSelector =>
              /\ ~last.res.ok
              /\ last.res.err.kind = "InvalidProbeSelector"
              /\ last.res.canon = {}
              /\ last.res.stderr = <<>>
        /\ (ValidSelector /\ Matching = {}) =>
              /\ ~last.res.ok
              /\ last.res.err.kind = "ChipNotFound"
              /\ last.res.canon = {}
        /\ (ValidSelector /\ Cardinality(Matching) >= 2) =>
              /\ ~last.res.ok
              /\ last.res.err.kind = "AmbiguousChip"
              /\ last.res.canon = {}

C10_Witness ==
    /\ HasRaw /\ ~ValidSelector /\ Cardinality(Matching) # 1
    /\ HasBinary /\ ~Exists(InDirectory(Binary), cwd)
    /\ result.done /\ result.err.kind = "InvalidProbeSelector"
====
